---- MODULE Spec2Model ----
(***************************************************************************)
(* A model of DAMPAqData (src/pull.py): the collectData pipeline that      *)
(* filters a protocol's operations, derives the configured output fields   *)
(* of each operation into op_data, and writes op_data to the protocol's    *)
(* tab of the spreadsheet.                                                 *)
(***************************************************************************)
EXTENDS Integers, Sequences, FiniteSets, TLC

VARIABLES
    USERS,           \* self.USERS: configured user names
    USER_KEYS,       \* self.USER_KEYS: the user ids findKeys resolved
    HANDS_OFF_TIME,  \* self.HANDS_OFF_TIME: minutes, aligned with PROTOCOLS
    OUTPUTS,         \* self.OUTPUTS: the configured output field names, in order
    ERRORS,          \* self.ERRORS: the configured error keywords
    lookback,        \* the `time` argument of collectData
    store,           \* op_type.operations of each protocol (the record store)
    sheet,           \* the spreadsheet: one tab (a sequence of rows) per protocol
    op_data,         \* self.op_data: field name -> sequence of values
    operations,      \* what is left of the generator collectOperations returned
    op,              \* the loop variable `op` of collectData
    pIdx,            \* position of the loop over PROTOCOL_KEYS
    oIdx,            \* position of the loop over OUTPUTS for the current op
    printed,         \* the keys findData printed its diagnostic for, in order
    pc,              \* where collectData is
    err              \* the exception that ended collectData, "" when none

vars == <<USERS, USER_KEYS, HANDS_OFF_TIME, OUTPUTS, ERRORS, lookback, store,
          sheet, op_data, operations, op, pIdx, oIdx, printed, pc, err>>

config == <<USERS, HANDS_OFF_TIME, OUTPUTS, ERRORS, lookback, store>>

(***************************************************************************)
(* Bounds of the model.                                                    *)
(***************************************************************************)
MaxOps == 2        \* operations in the record store, over all protocols
MaxDas == 2        \* data associations of one operation
MaxRows == 3       \* rows of a tab before the run
MaxOutputs == 3    \* length of the configured output lists drawn freely
MaxTrace == 3      \* steps of a job state

(***************************************************************************)
(* Python values.  A value is a string or a number; numbers are exact      *)
(* rationals num/den (den > 0, lowest terms), which is what the floats of  *)
(* the program stand for.                                                  *)
(***************************************************************************)
Str(x) == [k |-> "str", s |-> x, num |-> 0, den |-> 1]

Abs(n) == IF n < 0 THEN -n ELSE n

RECURSIVE GCD(_, _)
GCD(a, b) == IF b = 0 THEN a ELSE GCD(b, a % b)

Num(n, d) ==
    LET g == GCD(Abs(n), d)
    IN  [k |-> "num", s |-> "", num |-> n \div g, den |-> d \div g]

IntVal(n) == Num(n, 1)

Empty == Str("")

\* Python truthiness of a value: "" and 0 are false.
Truthy(v) == IF v.k = "str" THEN v.s # "" ELSE v.num # 0

IsNum(v) == v.k = "num"

\* The outcome of evaluating an expression: a value, or the exception raised.
Ok(v) == [err |-> "", val |-> v]
Raise(e) == [err |-> e, val |-> Empty]

\* Evaluate r, then next (which reads r's value); an exception in r propagates.
Then(r, next) == IF r.err # "" THEN r ELSE next

Sub(a, b) ==
    IF IsNum(a) /\ IsNum(b)
    THEN Ok(Num(a.num * b.den - b.num * a.den, a.den * b.den))
    ELSE Raise("TypeError")

\* Both operands are numbers wherever the program multiplies.
Mul(a, b) ==
    IF IsNum(a) /\ IsNum(b)
    THEN Ok(Num(a.num * b.num, a.den * b.den))
    ELSE Raise("TypeError")

Div(a, b) ==
    IF ~(IsNum(a) /\ IsNum(b)) THEN Raise("TypeError")
    ELSE IF b.num = 0 THEN Raise("ZeroDivisionError")
    ELSE IF b.num > 0 THEN Ok(Num(a.num * b.den, a.den * b.num))
    ELSE Ok(Num(-(a.num * b.den), a.den * (-b.num)))

Last(s) == s[Len(s)]

Range(s) == {s[i] : i \in 1..Len(s)}

(***************************************************************************)
(* Configuration that is the same in every run of the model.               *)
(***************************************************************************)
PROTOCOLS == <<"Check Plate", "Make PCR Fragment">>

COSTS == <<IntVal(3), IntVal(4)>>

\* list.index: the position of the first occurrence.
IndexOf(seq, x) == CHOOSE i \in 1..Len(seq) : seq[i] = x /\ \A j \in 1..(i - 1) : seq[j] # x

\* session.User.find_by_name(user).id and session.User.find(id).name
UserId(name) == CASE name = "alice" -> 1 [] name = "bob" -> 2 [] OTHER -> 3

UserName(id) == CASE id = 1 -> "alice" [] id = 2 -> "bob" [] OTHER -> "carol"

(***************************************************************************)
(* findRuntime.  A job state is the JSON text of a list of steps; json is  *)
(* FALSE when the text does not parse.  A step's "time" is absent          *)
(* (has_time FALSE) or of kind "iso" (a string strptime accepts), "text"   *)
(* (any other string) or "epoch" (not a string); secs is the instant.      *)
(***************************************************************************)
\* The exception converting a step's time raises, "" when none.
TimeError(t) ==
    IF t.kind = "iso" THEN ""
    ELSE IF t.kind = "text" THEN "ValueError"   \* strptime: format mismatch
    ELSE "NameError"                             \* utc_tz is not defined

findRuntime(o) ==
    LET state == Last(o.jobs).state
        tj == state.steps
        n == Len(tj)
    IN  IF ~state.json THEN Raise("ValueError")          \* json.loads, outside the try
        ELSE IF n < 2 THEN Ok(Empty)                      \* IndexError, caught
        ELSE IF ~tj[1].has_time \/ ~tj[n - 1].has_time THEN Ok(Empty)  \* KeyError, caught
        ELSE IF TimeError(tj[1]) # "" THEN Raise(TimeError(tj[1]))
        ELSE IF TimeError(tj[n - 1]) # "" THEN Raise(TimeError(tj[n - 1]))
        ELSE LET total == tj[n - 1].secs - tj[1].secs
                 days == total \div 86400
                 seconds == total % 86400
             IN  Ok(Num(days * 1440 * 60 + seconds, 60))

(***************************************************************************)
(* findData.  An operation o has id, user_id, created_at, protocol (its    *)
(* operation_type.name), status, data_associations (their keys, in scan    *)
(* order), jobs (each with user_id, size = len(operations), state) and     *)
(* outputs (each with item, FALSE for no item, and the item's data         *)
(* associations as key/value pairs).                                       *)
(***************************************************************************)
KnownOutputs ==
    {"Date", "ID", "Protocol", "Technician", "Status", "Error Message", "Job Size",
     "Runtime", "Hands-off Time", "Hands-on Time", "Hands-on Time/Job", "Cost/Job",
     "Total Cost", "Cost/Minute (Total)", "Cost/Minute (Hands-on)",
     "Concentration Keyword", "White Colonies", "Blue Colonies"}

\* self.op_data[f][-1]
Peek(data, f) ==
    IF f \notin DOMAIN data THEN Raise("KeyError")
    ELSE IF data[f] = <<>> THEN Raise("IndexError")
    ELSE Ok(Last(data[f]))

\* A mutation of the Status loop: job_crash, once seen, is not overwritten.
RECURSIVE ScanStatusCrashFirst(_, _, _)
ScanStatusCrashFirst(das, i, value) ==
    IF i > Len(das) THEN value
    ELSE ScanStatusCrashFirst(das, i + 1,
             IF value = "crashed" \/ das[i] = "job_crash" THEN "crashed"
             ELSE IF das[i] = "aborted" THEN "aborted"
             ELSE IF das[i] = "canceled" THEN "canceled"
             ELSE value)

\* The Status loop: every data association is scanned, a later match overwrites.
RECURSIVE ScanStatus(_, _, _)
ScanStatus(das, i, value) ==
    IF i > Len(das) THEN value
    ELSE ScanStatus(das, i + 1,
             IF das[i] = "job_crash" THEN "crashed"
             ELSE IF das[i] = "aborted" THEN "aborted"
             ELSE IF das[i] = "canceled" THEN "canceled"
             ELSE value)

findStatus(o) ==
    IF o.data_associations # <<>> /\ o.status = "error"
    THEN ScanStatus(o.data_associations, 1, o.status)
    ELSE o.status

\* A mutation of the Error Message loop: it stops at the first match.
RECURSIVE ScanErrorsBreak(_, _, _, _)
ScanErrorsBreak(das, errors, i, value) ==
    IF i > Len(das) THEN value
    ELSE IF das[i] \in Range(errors) THEN das[i]
    ELSE ScanErrorsBreak(das, errors, i + 1, value)

\* The Error Message loop: value = da.key for every da whose key is in ERRORS.
RECURSIVE ScanErrors(_, _, _, _)
ScanErrors(das, errors, i, value) ==
    IF i > Len(das) THEN value
    ELSE ScanErrors(das, errors, i + 1,
             IF das[i] \in Range(errors) THEN das[i] ELSE value)

\* The loops over op.outputs[-1].item.data_associations: the last match stays.
RECURSIVE ScanItem(_, _, _, _)
ScanItem(das, key, i, value) ==
    IF i > Len(das) THEN value
    ELSE ScanItem(das, key, i + 1, IF das[i].key = key THEN das[i].value ELSE value)

ItemValue(o, key) ==
    IF o.outputs = <<>> THEN Raise("IndexError")         \* op.outputs[-1]
    ELSE LET out == Last(o.outputs)
         IN  IF out.item /\ out.data_associations # <<>>
             THEN Ok(Str(ScanItem(out.data_associations, key, 1, "")))
             ELSE Ok(Empty)

\* `self.op_data["Status"][-1] == "done" and self.op_data["Runtime"][-1]`, then
\* the assignment under it.
DoneWithRuntime(data, assignment) ==
    LET st == Peek(data, "Status")
        rt == Peek(data, "Runtime")
    IN  Then(st, IF st.val # Str("done") THEN Ok(Empty)
                 ELSE Then(rt, IF ~Truthy(rt.val) THEN Ok(Empty) ELSE assignment))

\* The value findData computes for key (check is None), or the exception raised.
findValue(o, key, data, errors, hands_off) ==
    LET Status == Peek(data, "Status")
        Runtime == Peek(data, "Runtime")
        HandsOffTime == Peek(data, "Hands-off Time")
        HandsOnTime == Peek(data, "Hands-on Time")
        JobSize == Peek(data, "Job Size")
        CostJob == Peek(data, "Cost/Job")
        TotalCost == Peek(data, "Total Cost")
        Protocol == Peek(data, "Protocol")
    IN
    CASE key = "Date" -> Ok(Str(o.created_at))
      [] key = "ID" -> Ok(IntVal(o.id))
      [] key = "Protocol" -> Ok(Str(o.protocol))
      [] key = "Technician" -> Ok(Str(UserName(Last(o.jobs).user_id)))
      [] key = "Status" -> Ok(Str(findStatus(o)))
      [] key = "Error Message" ->
            \* the whole test is inside try/except: a missing Status is swallowed
            IF o.data_associations = <<>> \/ Status.err # "" \/ Status.val = Str("done")
            THEN Ok(Empty)
            ELSE Ok(Str(ScanErrors(o.data_associations, errors, 1, "")))
      [] key = "Job Size" -> Ok(IntVal(Last(o.jobs).size))
      [] key = "Runtime" ->
            Then(Status, IF Status.val = Str("done") THEN findRuntime(o) ELSE Ok(Empty))
      [] key = "Hands-off Time" ->
            Then(Status, IF Status.val = Str("done")
                         THEN Ok(hands_off[IndexOf(PROTOCOLS, o.protocol)])
                         ELSE Ok(Empty))
      [] key = "Hands-on Time" ->
            DoneWithRuntime(data,
                Then(Runtime, Then(HandsOffTime, Sub(Runtime.val, HandsOffTime.val))))
      [] key = "Hands-on Time/Job" ->
            DoneWithRuntime(data,
                Then(HandsOnTime, Then(JobSize, Div(HandsOnTime.val, JobSize.val))))
      [] key = "Cost/Job" -> Ok(COSTS[IndexOf(PROTOCOLS, o.protocol)])
      [] key = "Total Cost" ->
            Then(JobSize, Then(CostJob, Mul(JobSize.val, CostJob.val)))
      [] key = "Cost/Minute (Total)" ->
            DoneWithRuntime(data,
                Then(TotalCost, Then(Runtime, Div(TotalCost.val, Runtime.val))))
      [] key = "Cost/Minute (Hands-on)" ->
            DoneWithRuntime(data,
                Then(TotalCost, Then(HandsOnTime, Div(TotalCost.val, HandsOnTime.val))))
      [] key = "Concentration Keyword" -> ItemValue(o, "concentration_keyword")
      [] key = "White Colonies" ->
            Then(Protocol, IF Protocol.val = Str("Check Plate")
                           THEN ItemValue(o, "white_colonies")
                           ELSE Ok(Empty))
      [] key = "Blue Colonies" ->
            Then(Protocol, IF Protocol.val = Str("Check Plate")
                           THEN ItemValue(o, "blue_colonies")
                           ELSE Ok(Empty))
      [] OTHER -> Ok(Empty)

\* A mutation of appendData: a value is appended only when it is truthy.
appendDataSkipEmpty(data, key, value) ==
    IF key \notin DOMAIN data THEN [err |-> "KeyError", data |-> data]
    ELSE IF ~Truthy(value) THEN [err |-> "", data |-> data]
    ELSE [err |-> "", data |-> [data EXCEPT ![key] = Append(@, value)]]

\* appendData: self.op_data[key].append(value)
appendData(data, key, value) ==
    IF key \notin DOMAIN data THEN [err |-> "KeyError", data |-> data]
    ELSE [err |-> "", data |-> [data EXCEPT ![key] = Append(@, value)]]

\* Whether findData takes the branch that appends the value it computed; the
\* other branch appends "" and prints the diagnostic.
AppendsValue(key, outputs) == key \in Range(outputs)

\* findData(op, key, check): op_data afterwards, the exception raised ("" when
\* none) and whether the diagnostic was printed.  check is whether the third
\* argument is given (not None).
findData(o, key, check, data, outputs, errors, hands_off) ==
    IF check
    THEN LET a == appendData(data, key, Empty)
         IN  [err |-> a.err, data |-> a.data, printed |-> FALSE]
    ELSE LET v == findValue(o, key, data, errors, hands_off)
         IN  IF v.err # "" THEN [err |-> v.err, data |-> data, printed |-> FALSE]
             ELSE IF AppendsValue(key, outputs)
             THEN LET a == appendData(data, key, v.val)
                  IN  [err |-> a.err, data |-> a.data, printed |-> FALSE]
             ELSE LET a == appendData(data, key, Empty)
                  IN  [err |-> a.err, data |-> a.data, printed |-> a.err = ""]

\* createEmptyDict: dict([(output, []) for output in self.OUTPUTS])
createEmptyDict(outputs) == [f \in Range(outputs) |-> <<>>]

(***************************************************************************)
(* collectOperations.  user_id 0 stands for an absent (falsy) identifier.  *)
(* The lookback argument and the operation's created_at are not read: the  *)
(* predicate with findTimeDelta is commented out in the source.            *)
(***************************************************************************)
\* A mutation of the filter: the commented-out predicate, which also keeps only
\* operations created at most `time` days ago (findTimeDelta(op.created_at) <= time).
MatchesInWindow(o, user_keys, time) ==
    /\ o.user_id \in Range(user_keys)
    /\ o.jobs # <<>>
    /\ Last(o.jobs).user_id # 0
    /\ (IF o.created_at = "2017-01-01" THEN 580 ELSE 1) <= time

Matches(o, user_keys, time) ==
    /\ o.user_id \in Range(user_keys)
    /\ o.jobs # <<>>
    /\ Last(o.jobs).user_id # 0

collectOperations(ops, user_keys, time) ==
    SelectSeq(ops, LAMBDA o : Matches(o, user_keys, time))

\* findKeys: the ids of the configured users.
findKeys(users) == [i \in 1..Len(users) |-> UserId(users[i])]

(***************************************************************************)
(* The spreadsheet.  A tab is a sequence of rows, a row a sequence of      *)
(* cells (values); a cell beyond the end of its row is empty.              *)
(***************************************************************************)
Cell(tab, r, c) == IF c <= Len(tab[r]) THEN tab[r][c] ELSE Empty

\* The text of a cell is empty only for the empty string: 0 reads "0".
CellFilled(v) == ~(v.k = "str" /\ v.s = "")

\* sheet.get_col(1): the first cell of every row of the grid, as filled or not.
get_col(tab) == [r \in 1..Len(tab) |-> CellFilled(Cell(tab, r, 1))]

\* The while loop of findFirstEmptyRow, row counting from 0.
RECURSIVE ScanColumn(_, _)
ScanColumn(column, row) ==
    IF row >= Len(column) THEN [row |-> row, index_error |-> TRUE]
    ELSE IF column[row + 1] THEN ScanColumn(column, row + 1)
    ELSE [row |-> row, index_error |-> FALSE]

\* findFirstEmptyRow: the row returned and whether sheet.add_rows(1) was called.
findFirstEmptyRow(column) ==
    IF column = <<>> THEN [row |-> 1, add_rows |-> FALSE]
    ELSE LET r == ScanColumn(column, 0)
         IN  IF r.index_error THEN [row |-> r.row, add_rows |-> TRUE]
             ELSE [row |-> r.row + 1, add_rows |-> FALSE]

\* Writing cells over a row: the cells written replace the row's first cells.
Overwrite(old, cells) ==
    cells \o (IF Len(old) > Len(cells) THEN SubSeq(old, Len(cells) + 1, Len(old)) ELSE <<>>)

\* The columns of pd.DataFrame(op_data): the dict's keys in insertion order,
\* which is the order of first occurrence in OUTPUTS.
RECURSIVE Columns(_)
Columns(outputs) ==
    IF outputs = <<>> THEN <<>>
    ELSE LET rest == Columns(SubSeq(outputs, 1, Len(outputs) - 1))
         IN  IF Last(outputs) \in Range(rest) THEN rest ELSE Append(rest, Last(outputs))

\* writeData on one tab.  pd.DataFrame raises ValueError when the columns differ
\* in length.  extend is what the sheet does with a write below its last row:
\* grow (TRUE) or refuse the request (FALSE).
writeData(tab, data, outputs, extend) ==
    LET cols == Columns(outputs)
        ragged == \E a, b \in DOMAIN data : Len(data[a]) # Len(data[b])
        nrows == IF cols = <<>> THEN 0 ELSE Len(data[cols[1]])
        headed == [tab EXCEPT ![1] = Overwrite(@, [i \in 1..Len(outputs) |-> Str(outputs[i])])]
        found == findFirstEmptyRow(get_col(headed))
        grid == IF found.add_rows THEN Append(headed, <<>>) ELSE headed
        first == found.row
        last == first + nrows - 1
        dfrow(i) == [c \in 1..Len(cols) |-> data[cols[c]][i]]
        written == [r \in 1..(IF last > Len(grid) THEN last ELSE Len(grid)) |->
                       IF r >= first /\ r <= last
                       THEN Overwrite(IF r <= Len(grid) THEN grid[r] ELSE <<>>, dfrow(r - first + 1))
                       ELSE grid[r]]
    IN  IF ragged THEN [err |-> "ValueError", tab |-> tab, row |-> 0]
        ELSE IF nrows = 0 THEN [err |-> "", tab |-> grid, row |-> first]   \* df.empty
        ELSE IF last > Len(grid) /\ ~extend THEN [err |-> "SinkError", tab |-> grid, row |-> first]
        ELSE [err |-> "", tab |-> written, row |-> first]

(***************************************************************************)
(* collectData, one step of its loops at a time.                           *)
(***************************************************************************)
Operation(id, user_id, created_at, protocol, status, das, jobs, outputs) ==
    [id |-> id, user_id |-> user_id, created_at |-> created_at, protocol |-> protocol,
     status |-> status, data_associations |-> das, jobs |-> jobs, outputs |-> outputs]

\* The value of `op` before the first iteration.
NoOp == Operation(0, 0, "", "", "", <<>>, <<>>, <<>>)

\* self.findKeys()
CollectData_FindKeys ==
    /\ pc = "findKeys"
    /\ USER_KEYS' = findKeys(USERS)
    /\ pc' = "protocols"
    /\ UNCHANGED <<config, sheet, op_data, operations, op, pIdx, oIdx, printed, err>>

\* for p in self.PROTOCOL_KEYS: createEmptyDict(); operations = collectOperations(p, time)
CollectData_Protocol ==
    /\ pc = "protocols"
    /\ pIdx < Len(PROTOCOLS)
    /\ pIdx' = pIdx + 1
    /\ op_data' = createEmptyDict(OUTPUTS)
    /\ operations' = collectOperations(store[pIdx + 1], USER_KEYS, lookback)
    /\ pc' = "operations"
    /\ oIdx' = 1
    /\ UNCHANGED <<config, USER_KEYS, sheet, op, printed, err>>

\* for op in operations: the generator yields its next operation
CollectData_NextOp ==
    /\ pc = "operations"
    /\ operations # <<>>
    /\ op' = Head(operations)
    /\ operations' = Tail(operations)
    /\ oIdx' = 1
    /\ pc' = IF OUTPUTS = <<>> THEN "operations" ELSE "outputs"
    /\ UNCHANGED <<config, USER_KEYS, sheet, op_data, pIdx, printed, err>>

\* for o in self.OUTPUTS: self.findData(op, o)
CollectData_FindData ==
    /\ pc = "outputs"
    /\ LET r == findData(op, OUTPUTS[oIdx], FALSE, op_data, OUTPUTS, ERRORS, HANDS_OFF_TIME)
       IN  IF r.err # ""
           THEN /\ pc' = "raised"
                /\ err' = r.err
                /\ UNCHANGED <<op_data, oIdx, printed>>
           ELSE /\ op_data' = r.data
                /\ printed' = IF r.printed THEN Append(printed, OUTPUTS[oIdx]) ELSE printed
                /\ oIdx' = oIdx + 1
                /\ pc' = IF oIdx = Len(OUTPUTS) THEN "operations" ELSE "outputs"
                /\ err' = err
    /\ UNCHANGED <<config, USER_KEYS, sheet, operations, op, pIdx>>

\* self.writeData(self.session.OperationType.find(p).name), then the next protocol
CollectData_WriteData ==
    /\ pc = "operations"
    /\ operations = <<>>
    /\ \E extend \in BOOLEAN :
          LET w == writeData(sheet[pIdx], op_data, OUTPUTS, extend)
          IN  /\ sheet' = [sheet EXCEPT ![pIdx] = w.tab]
              /\ err' = w.err
              /\ pc' = IF w.err # "" THEN "raised"
                       ELSE IF pIdx = Len(PROTOCOLS) THEN "done" ELSE "protocols"
    /\ UNCHANGED <<config, USER_KEYS, op_data, operations, op, pIdx, oIdx, printed>>

Next ==
    \/ CollectData_FindKeys
    \/ CollectData_Protocol
    \/ CollectData_NextOp
    \/ CollectData_FindData
    \/ CollectData_WriteData

\* The state after DAMPAqData(), loadInputs and connectSheet, before collectData.
InitWith(users, hands_off, outputs, errors, time, ops, tabs) ==
    /\ USERS = users
    /\ HANDS_OFF_TIME = hands_off
    /\ OUTPUTS = outputs
    /\ ERRORS = errors
    /\ lookback = time
    /\ store = ops
    /\ sheet = tabs
    /\ USER_KEYS = <<>>
    /\ op_data = <<>>
    /\ operations = <<>>
    /\ op = NoOp
    /\ pIdx = 0
    /\ oIdx = 1
    /\ printed = <<>>
    /\ pc = "findKeys"
    /\ err = ""

(***************************************************************************)
(* The inputs the model is run on: configurations, record stores and       *)
(* prior tab contents.                                                     *)
(***************************************************************************)
SeqsUpTo(S, n) == UNION {[1..k -> S] : k \in 0..n}

Job(user_id, size, state) == [user_id |-> user_id, size |-> size, state |-> state]

JobState(json, steps) == [json |-> json, steps |-> steps]

Step(has_time, kind, secs) == [has_time |-> has_time, kind |-> kind, secs |-> secs]

Output(item, das) == [item |-> item, data_associations |-> das]

\* "2018-01-01T00:00:00+00:00" plus secs seconds, and the other step shapes.
Iso(secs) == Step(TRUE, "iso", secs)
Epoch(secs) == Step(TRUE, "epoch", secs)
Marker == Step(TRUE, "text", 0)
NoTime == Step(FALSE, "text", 0)

\* A job state of three steps, ten minutes from the first to the second.
TenMinutes == JobState(TRUE, <<Iso(0), Iso(600), Marker>>)

Colonies == <<Output(TRUE, <<[key |-> "white_colonies", value |-> "12"],
                             [key |-> "concentration_keyword", value |-> "HIGH"]>>)>>

\* The operations of the two protocols, with ids in store order and each
\* protocol's operation_type.name.
Place(shapes, p, base) ==
    [i \in 1..Len(shapes) |-> [shapes[i] EXCEPT !.id = base + i, !.protocol = PROTOCOLS[p]]]

StoreOf(a, b) == <<Place(a, 1, 0), Place(b, 2, Len(a))>>

\* Every split of at most MaxOps operations of S over the two protocols.
Stores(S) ==
    {StoreOf(q[1], q[2]) :
        q \in {x \in SeqsUpTo(S, MaxOps) \X SeqsUpTo(S, MaxOps) :
                  Len(x[1]) + Len(x[2]) <= MaxOps}}

\* One operation of S in the first protocol, followed by operations of T.
StoresLed(S, T) ==
    {StoreOf(<<q[1]>> \o q[2], q[3]) :
        q \in {x \in S \X SeqsUpTo(T, MaxOps - 1) \X SeqsUpTo(T, MaxOps - 1) :
                  Len(x[2]) + Len(x[3]) <= MaxOps - 1}}

BlankTab == [r \in 1..MaxRows |-> <<>>]

BlankSheet == [p \in 1..Len(PROTOCOLS) |-> BlankTab]

Shape(user_id, created_at, status, das, jobs, outputs) ==
    Operation(0, user_id, created_at, "", status, das, jobs, outputs)

DoneOp == Shape(1, "2018-08-01", "done", <<>>, <<Job(1, 2, TenMinutes)>>, Colonies)
CrashedOp == Shape(1, "2018-08-02", "error", <<"job_crash">>, <<Job(2, 1, TenMinutes)>>, Colonies)
PendingOp == Shape(1, "2018-08-03", "pending", <<>>, <<Job(1, 1, JobState(TRUE, <<>>))>>, <<>>)

HandsOff == <<IntVal(10), IntVal(4)>>

(* Accumulation: output lists drawn freely, among them repeated and unknown  *)
(* names; a few operations.                                                  *)
AccNames == {"ID", "Status", "Runtime", "Sample"}

InitAcc ==
    \E outputs \in SeqsUpTo(AccNames, MaxOutputs),
       ops \in Stores({DoneOp, CrashedOp, PendingOp}) :
        InitWith(<<"alice">>, HandsOff, outputs, <<"job_crash">>, 14, ops, BlankSheet)

SpecAcc == InitAcc /\ [][Next]_vars

(***************************************************************************)
(* What the claims speak of.                                               *)
(***************************************************************************)
\* The operations collectOperations yields for the current protocol, and how
\* many of them the loop has taken so far.
Yielded == Len(collectOperations(store[pIdx], USER_KEYS, lookback))

Taken == Yielded - Len(operations)

\* The current protocol's operations are exhausted: writeData has been called.
Exhausted ==
    \/ pc \in {"protocols", "done"} /\ pIdx >= 1
    \/ pc = "raised" /\ oIdx > Len(OUTPUTS)

\* findData raised while deriving the field at position oIdx.
RaisedInFindData == pc = "raised" /\ oIdx <= Len(OUTPUTS)

Count(f, seq) == Cardinality({i \in 1..Len(seq) : seq[i] = f})

Before(j) == Range(SubSeq(OUTPUTS, 1, j - 1))

\* The field at position j has been derived for the current operation, and no
\* later entry of the same name has: its value is the field's last value.
Derived(j) ==
    /\ j \in 1..Len(OUTPUTS)
    /\ j < oIdx
    /\ \A i \in (j + 1)..(oIdx - 1) : OUTPUTS[i] # OUTPUTS[j]

ValueAt(j) == Last(op_data[OUTPUTS[j]])

(***************************************************************************)
(* C1 as stated: for any output list, repeated names included, every       *)
(* field's sequence has length exactly K once the protocol's K records are *)
(* exhausted, and exactly the number of records processed after each       *)
(* processed record.                                                       *)
(***************************************************************************)
ClaimC1 ==
    pIdx >= 1 =>
        \A f \in DOMAIN op_data :
            /\ pc = "operations" => Len(op_data[f]) = Taken
            /\ Exhausted => Len(op_data[f]) = Yielded

(***************************************************************************)
(* C1 amended: every entry of the output list appends exactly one value    *)
(* per record, so a field listed m times has m values per record: its      *)
(* sequence has length m*K once the K records are exhausted (K when the    *)
(* name is listed once) and m times the number of records processed after  *)
(* each processed record; the accumulator's fields are the listed names.   *)
(***************************************************************************)
TheoremC1 ==
    pIdx >= 1 =>
        /\ DOMAIN op_data = Range(OUTPUTS)
        /\ \A f \in DOMAIN op_data :
            /\ pc = "operations" => Len(op_data[f]) = Count(f, OUTPUTS) * Taken
            /\ Exhausted => Len(op_data[f]) = Count(f, OUTPUTS) * Yielded

\* Two records exhausted under a list that names one field twice and another once.
WitnessC1 ==
    /\ Exhausted
    /\ Yielded = 2
    /\ \E f, g \in DOMAIN op_data :
          /\ Count(f, OUTPUTS) = 2 /\ Len(op_data[f]) = 4
          /\ Count(g, OUTPUTS) = 1 /\ Len(op_data[g]) = 2

(***************************************************************************)
(* C2 as stated: for every field name outside the known catalog, findData  *)
(* records an empty value, prints the "not a known data type" diagnostic   *)
(* and does not raise.                                                     *)
(***************************************************************************)
ClaimC2 ==
    \A j \in 1..Len(OUTPUTS) :
        OUTPUTS[j] \notin KnownOutputs =>
            /\ ~(RaisedInFindData /\ oIdx = j)
            /\ Derived(j) => ValueAt(j) = Empty /\ OUTPUTS[j] \in Range(printed)

(* Derivation: the full catalog in dependency order and lists that leave a   *)
(* dependency out or name it late; one operation drawn over statuses, job    *)
(* sizes, job states and outputs, followed by ordinary operations.           *)
AllOutputs ==
    <<"Date", "ID", "Protocol", "Technician", "Status", "Error Message", "Job Size",
      "Runtime", "Hands-off Time", "Hands-on Time", "Hands-on Time/Job", "Cost/Job",
      "Total Cost", "Cost/Minute (Total)", "Cost/Minute (Hands-on)",
      "Concentration Keyword", "White Colonies", "Blue Colonies">>

DeriveLists ==
    {AllOutputs,
     <<"Runtime">>,
     <<"Runtime", "Status">>,
     <<"Total Cost">>,
     <<"White Colonies", "Protocol">>,
     <<"Status", "Runtime", "Hands-on Time", "Hands-off Time">>,
     <<"Status", "Runtime", "Hands-off Time", "Hands-on Time">>}

StepShapes == {Iso(0), Iso(600), Iso(90), Epoch(600), Marker, NoTime}

JobStates == {JobState(FALSE, <<>>)} \cup {JobState(TRUE, t) : t \in SeqsUpTo(StepShapes, MaxTrace)}

DeriveOps ==
    {Shape(1, "2018-08-01", st, <<>>, <<Job(1, size, state)>>, outs) :
        st \in {"done", "error"}, size \in {0, 2}, state \in JobStates,
        outs \in {<<>>, Colonies}}

InitDerive ==
    \E outputs \in DeriveLists, ops \in StoresLed(DeriveOps, {DoneOp, PendingOp}) :
        InitWith(<<"alice">>, HandsOff, outputs, <<"job_crash">>, 14, ops, BlankSheet)

SpecDerive == InitDerive /\ [][Next]_vars

\* The sibling fields findData reads from op_data when it derives a field.
Reads(f) ==
    CASE f \in {"Runtime", "Hands-off Time"} -> {"Status"}
      [] f = "Hands-on Time" -> {"Status", "Runtime", "Hands-off Time"}
      [] f = "Hands-on Time/Job" -> {"Status", "Runtime", "Hands-on Time", "Job Size"}
      [] f = "Total Cost" -> {"Job Size", "Cost/Job"}
      [] f = "Cost/Minute (Total)" -> {"Status", "Runtime", "Total Cost"}
      [] f = "Cost/Minute (Hands-on)" -> {"Status", "Runtime", "Total Cost", "Hands-on Time"}
      [] f \in {"White Colonies", "Blue Colonies"} -> {"Protocol"}
      [] OTHER -> {}

\* Every field is listed after the fields it reads.
WellOrdered == \A j \in 1..Len(OUTPUTS) : Reads(OUTPUTS[j]) \subseteq Before(j)

(***************************************************************************)
(* C3 as stated: a field derived for a record before one of the sibling    *)
(* fields it reads has been derived for that record gets the empty value;  *)
(* findData does not raise there.                                          *)
(***************************************************************************)
ClaimC3 ==
    \A j \in 1..Len(OUTPUTS) :
        ~(Reads(OUTPUTS[j]) \subseteq Before(j)) =>
            /\ ~(RaisedInFindData /\ oIdx = j)
            /\ Derived(j) => ValueAt(j) = Empty

(***************************************************************************)
(* C4 as stated: with every dependent field listed after its dependencies, *)
(* no findData call raises, whatever the record holds.                     *)
(***************************************************************************)
ClaimC4 == WellOrdered => ~RaisedInFindData

(***************************************************************************)
(* C6 as stated: for a record whose Status is "done" and whose Runtime is  *)
(* a number R (0 included), with Status, Runtime and Hands-off Time listed *)
(* before Hands-on Time, Hands-on Time is R minus the protocol's hands-off *)
(* time.                                                                   *)
(***************************************************************************)
ClaimC6 ==
    \A j \in 1..Len(OUTPUTS) :
        /\ OUTPUTS[j] = "Hands-on Time"
        /\ Derived(j)
        /\ {"Status", "Runtime", "Hands-off Time"} \subseteq Before(j)
        /\ Last(op_data["Status"]) = Str("done")
        /\ IsNum(Last(op_data["Runtime"]))
        => ValueAt(j) = Sub(Last(op_data["Runtime"]),
                            HANDS_OFF_TIME[IndexOf(PROTOCOLS, op.protocol)]).val

(***************************************************************************)
(* C7 as stated: for a job state of at least two steps whose times are     *)
(* ISO-8601 strings or epoch integers, the Runtime of a "done" record is   *)
(* the minutes from the first step to the second-to-last; for fewer than   *)
(* two steps it is empty.                                                  *)
(***************************************************************************)
ClaimC7 ==
    \A j \in 1..Len(OUTPUTS) :
        /\ OUTPUTS[j] = "Runtime"
        /\ "Status" \in Before(j)
        /\ j <= oIdx
        /\ pc \in {"outputs", "operations", "raised"}
        /\ op.status = "done"
        /\ Last(op.jobs).state.json
        => LET steps == Last(op.jobs).state.steps
               n == Len(steps)
           IN  /\ (n >= 2 /\ \A i \in 1..n : steps[i].has_time /\ steps[i].kind \in {"iso", "epoch"})
                    => /\ ~(RaisedInFindData /\ oIdx = j)
                       /\ Derived(j) => ValueAt(j) = Num(steps[n - 1].secs - steps[1].secs, 60)
               /\ n < 2 => (Derived(j) => ValueAt(j) = Empty)

(* Status and Error Message: one operation drawn over statuses and data      *)
(* associations, under several error-keyword lists.                          *)
DaKeys == {"job_crash", "aborted", "canceled", "note"}

StatusOps ==
    {Shape(1, "2018-08-01", st, das, <<Job(1, 1, TenMinutes)>>, <<>>) :
        st \in {"done", "error", "pending"}, das \in SeqsUpTo(DaKeys, MaxDas)}

ErrorLists == {<<>>, <<"job_crash", "note">>, <<"note", "aborted", "canceled">>}

InitStatus ==
    \E outputs \in {<<"Status", "Error Message">>, <<"ID", "Status", "Error Message">>},
       errors \in ErrorLists,
       ops \in StoresLed(StatusOps, {DoneOp, CrashedOp}) :
        InitWith(<<"alice">>, HandsOff, outputs, errors, 14, ops, BlankSheet)

SpecStatus == InitStatus /\ [][Next]_vars

\* The positions of das whose key is in keys, and the last and first of them.
Hits(das, keys) == {i \in 1..Len(das) : das[i] \in keys}

LastHit(das, keys) == CHOOSE i \in Hits(das, keys) : \A k \in Hits(das, keys) : k <= i

FirstHit(das, keys) == CHOOSE i \in Hits(das, keys) : \A k \in Hits(das, keys) : k >= i

Overrides == {"job_crash", "aborted", "canceled"}

OverrideValue(key) == IF key = "job_crash" THEN "crashed" ELSE key

(***************************************************************************)
(* C5 as stated: a record with status "error" and a data association       *)
(* "job_crash" has derived Status "crashed", whatever its other data       *)
(* associations and their order.                                           *)
(***************************************************************************)
ClaimC5 ==
    \A j \in 1..Len(OUTPUTS) :
        /\ OUTPUTS[j] = "Status"
        /\ Derived(j)
        /\ op.status = "error"
        /\ "job_crash" \in Range(op.data_associations)
        => ValueAt(j) = Str("crashed")

(***************************************************************************)
(* C5 amended: for a record with status "error" and a data association     *)
(* "job_crash", the derived Status is that of the last data association,   *)
(* in scan order, whose key is job_crash, aborted or canceled: "crashed"   *)
(* when no "aborted" or "canceled" association follows the last            *)
(* "job_crash", and otherwise "aborted" or "canceled".                     *)
(***************************************************************************)
TheoremC5 ==
    \A j \in 1..Len(OUTPUTS) :
        /\ OUTPUTS[j] = "Status"
        /\ Derived(j)
        /\ op.status = "error"
        /\ "job_crash" \in Range(op.data_associations)
        => LET das == op.data_associations
           IN  ValueAt(j) = Str(OverrideValue(das[LastHit(das, Overrides)]))

\* Status derived as "crashed" for an error record whose job_crash follows an abort.
WitnessC5 ==
    /\ \E j \in 1..Len(OUTPUTS) :
          OUTPUTS[j] = "Status" /\ Derived(j) /\ ValueAt(j) = Str("crashed")
    /\ op.status = "error"
    /\ op.data_associations = <<"aborted", "job_crash">>

(***************************************************************************)
(* C8 as stated: with Status derived and not "done", Error Message is the  *)
(* key of the first data association, in scan order, whose key is in the   *)
(* error-keyword list, empty if there is none; with Status "done" it is    *)
(* empty.                                                                  *)
(***************************************************************************)
ClaimC8 ==
    \A j \in 1..Len(OUTPUTS) :
        /\ OUTPUTS[j] = "Error Message"
        /\ Derived(j)
        /\ "Status" \in Before(j)
        => LET das == op.data_associations
               keys == Range(ERRORS)
           IN  ValueAt(j) =
                   IF Last(op_data["Status"]) = Str("done") \/ Hits(das, keys) = {}
                   THEN Empty
                   ELSE Str(das[FirstHit(das, keys)])

(***************************************************************************)
(* C8 amended: with Status derived and not "done", Error Message is the    *)
(* key of the last data association, in scan order, whose key is in the    *)
(* error-keyword list, empty if there is none; with Status "done" it is    *)
(* empty.                                                                  *)
(***************************************************************************)
TheoremC8 ==
    \A j \in 1..Len(OUTPUTS) :
        /\ OUTPUTS[j] = "Error Message"
        /\ Derived(j)
        /\ "Status" \in Before(j)
        => LET das == op.data_associations
               keys == Range(ERRORS)
           IN  ValueAt(j) =
                   IF Last(op_data["Status"]) = Str("done") \/ Hits(das, keys) = {}
                   THEN Empty
                   ELSE Str(das[LastHit(das, keys)])

\* Error Message derived for a record that is not "done" and carries two
\* different listed keys: the later one is recorded.
WitnessC8 ==
    /\ \E j \in 1..Len(OUTPUTS) :
          OUTPUTS[j] = "Error Message" /\ Derived(j) /\ ValueAt(j) = Str("note")
    /\ op.status = "pending"
    /\ op.data_associations = <<"job_crash", "note">>
    /\ ERRORS = <<"job_crash", "note">>

(* Filtering: operations drawn over owners, jobs, technicians and creation   *)
(* dates, under several user lists and lookback windows.                     *)
IdleState == JobState(TRUE, <<>>)

JobLists ==
    {<<>>, <<Job(0, 1, IdleState)>>, <<Job(1, 1, IdleState)>>, <<Job(2, 1, IdleState)>>,
     <<Job(1, 1, IdleState), Job(0, 1, IdleState)>>}

FilterOps ==
    {Shape(u, created, "pending", <<>>, jobs, <<>>) :
        u \in {1, 2}, created \in {"2017-01-01", "2018-08-01"}, jobs \in JobLists}

InitFilter ==
    \E users \in {<<"alice">>, <<"bob", "alice">>},
       time \in {0, 14},
       a \in SeqsUpTo(FilterOps, MaxOps) :
        InitWith(users, HandsOff, <<"ID", "Technician">>, <<>>, time, StoreOf(a, <<DoneOp>>),
                 BlankSheet)

SpecFilter == InitFilter /\ [][Next]_vars

\* The ids recorded for the operations of ops that satisfy Test, in store order.
IdsWhere(ops, Test(_)) ==
    LET kept == SelectSeq(ops, Test) IN [i \in 1..Len(kept) |-> IntVal(kept[i].id)]

OldHeader == <<Str("Concentration Keyword"), Str("ID")>>

OldRows == {<<Str("LOW"), IntVal(7)>>, <<Empty, IntVal(8)>>}

\* A header row (blank on a new tab), rows of data, then blank rows.
PriorTabs ==
    {<<h>> \o d \o [i \in 1..b |-> <<>>] :
        h \in {<<>>, OldHeader},
        d \in SeqsUpTo(OldRows, MaxRows - 1),
        b \in 0..1}

NoKeywordOp == Shape(1, "2018-08-04", "done", <<>>, <<Job(1, 1, TenMinutes)>>, <<Output(FALSE, <<>>)>>)

InitSheet ==
    \E tab \in PriorTabs, ops \in Stores({DoneOp, NoKeywordOp}) :
        InitWith(<<"alice">>, HandsOff, <<"Concentration Keyword", "ID">>, <<>>, 14, ops,
                 <<tab, BlankTab>>)

SpecSheet == InitSheet /\ [][Next]_vars

RowHasData(row) == \E c \in 1..Len(row) : CellFilled(row[c])

(***************************************************************************)
(* C10 as stated: whatever a tab held before, writeData leaves every row   *)
(* that already holds data as it was, and the first row holds the header   *)
(* after the write: the rows are placed below all existing data.           *)
(***************************************************************************)
ClaimC10 ==
    [][\A p \in 1..Len(sheet) :
          /\ \A r \in 2..Len(sheet[p]) :
                RowHasData(sheet[p][r]) => sheet'[p][r] = sheet[p][r]
          /\ sheet'[p] # sheet[p] =>
                \A c \in 1..Len(OUTPUTS) : Cell(sheet'[p], 1, c) = Str(OUTPUTS[c])]_vars

(***************************************************************************)
(* Every input family together.                                            *)
(***************************************************************************)
Init == InitAcc \/ InitDerive \/ InitStatus \/ InitFilter \/ InitSheet

Spec == Init /\ [][Next]_vars

====
